---- MODULE Spec2Model ----
(***************************************************************************)
(* Two-tier leaderboard cache of Code_duel_backend.                        *)
(*                                                                         *)
(*   src/src/services/cache.service.js  Cache Manager and Fallback Store   *)
(*   src/src/config/redis.js            Durable Cache Client               *)
(*                                                                         *)
(* Node runs one task at a time between suspension points.  A handler is   *)
(* therefore modelled by one action for the code up to its `await` of the  *)
(* Redis command (...Start) and one action for the code that runs when the *)
(* reply arrives (...Done).  Commands in flight are kept in the order in   *)
(* which the single connection sent them.                                  *)
(***************************************************************************)
EXTENDS Integers, Sequences, FiniteSets, TLC

(***************************************************************************)
(* Bounds of the model.                                                    *)
(***************************************************************************)
MaxCalls == 2
MaxSeqCalls == 3
MaxConnCalls == 1

Procs == {"p1", "p2"}
ProcOrder == [p \in Procs |-> IF p = "p1" THEN 1 ELSE 2]
ChallengeIds == {"c1", "c2"}
TTLs == {1, 2}

(***************************************************************************)
(* Program constants.                                                      *)
(***************************************************************************)
CACHE_PREFIX == "leaderboard:"
MsPerSecond == 1000

\* The clock is followed, one second at a time, until one second after the
\* shortest TTL in use has run out.
ShortestTTL == CHOOSE t \in TTLs : \A u \in TTLs : t <= u
Horizon == (ShortestTTL + 1) * MsPerSecond

(***************************************************************************)
(* JavaScript values.  An array (a leaderboard) and a string (a payload)   *)
(* are each wrapped with a null flag, so that null is comparable to both.  *)
(***************************************************************************)
null == [isNull |-> TRUE, v |-> <<>>]
Val(x) == [isNull |-> FALSE, v |-> x]

Entry(u, cs) == [username |-> u, currentStreak |-> cs]
Usernames == {"alice", "bob"}
Streaks == 0..2
\* The (entries, ttlSeconds) pairs setLeaderboardCache is called with.
SetInputs ==
  { <<(<<>>), 2>>, <<(<<Entry("bob", 2), Entry("alice", 0)>>), 1>> }

\* `if (data)` on an array or null: every array, the empty one too, is truthy.
TruthyArray(x) == ~x.isNull
\* `if (data)` on a string or null: the empty string is falsy.
TruthyString(x) == ~x.isNull /\ x.v # <<>>

(***************************************************************************)
(* JavaScript numbers.  completionRate is computed in IEEE-754 binary64:   *)
(* a number is kept as its significand, most significant bit first, with   *)
(* the exponent of its last bit, and every operation rounds its exact      *)
(* result to Precision bits, ties to even.  Only the operations the        *)
(* controller uses are modelled: integer / integer, number * integer and   *)
(* Number.prototype.toFixed.                                               *)
(***************************************************************************)
Precision == 53
FractionDigits == 2
Percent == 100

Zero == [bits |-> <<>>, exp |-> 0]
Number(bits, exp) == [bits |-> bits, exp |-> exp]

RECURSIVE Pow(_, _)
Pow(b, n) == IF n = 0 THEN 1 ELSE b * Pow(b, n - 1)

Front(s) == SubSeq(s, 1, Len(s) - 1)
Last(s) == s[Len(s)]

\* The binary digits of a natural number, without leading zeros.
RECURSIVE NatBits(_)
NatBits(n) == IF n = 0 THEN <<>> ELSE NatBits(n \div 2) \o <<n % 2>>

RECURSIVE BitsNat(_)
BitsNat(bits) ==
  IF bits = <<>> THEN 0 ELSE 2 * BitsNat(Front(bits)) + Last(bits)

\* bits + 1: the last 0 becomes 1 and the 1s after it become 0.
Increment(bits) ==
  LET zeros == {i \in 1..Len(bits) : bits[i] = 0} IN
  IF zeros = {} THEN <<1>> \o [i \in 1..Len(bits) |-> 0]
  ELSE LET j == CHOOSE i \in zeros : \A z \in zeros : z <= i
       IN  [i \in 1..Len(bits) |-> IF i < j THEN bits[i] ELSE IF i = j THEN 1 ELSE 0]

\* bits * n for a small natural n, by long multiplication from the last bit.
MulSmall(bits, n) ==
  LET len == Len(bits)
      carry[i \in 0..len] ==
        IF i = 0 THEN 0 ELSE (bits[len - i + 1] * n + carry[i - 1]) \div 2
  IN  NatBits(carry[len])
        \o [j \in 1..len |-> (bits[j] * n + carry[len - j]) % 2]

\* Round to nearest, ties to even: bits is an exact significand with a
\* leading 1, exp the exponent of its last bit.
RoundToNearestEven(bits, exp) ==
  IF Len(bits) <= Precision THEN Number(bits, exp)
  ELSE LET kept == SubSeq(bits, 1, Precision)
           rest == SubSeq(bits, Precision + 1, Len(bits))
           half == Head(rest) = 1
           more == \E i \in 2..Len(rest) : rest[i] = 1
           up == half /\ (more \/ Last(kept) = 1)
           sum == IF up THEN Increment(kept) ELSE kept
           e == exp + Len(rest)
       IN  IF Len(sum) > Precision THEN Number(Front(sum), e + 1)
           ELSE Number(sum, e)

\* n further quotient bits of r / d by long division, for a remainder r < d,
\* followed by one bit that tells whether anything is left.
QuotientBits(r, d, n) ==
  LET rem[i \in 0..n] == IF i = 0 THEN r ELSE (2 * rem[i - 1]) % d
  IN  [i \in 1..n |-> (2 * rem[i - 1]) \div d]
        \o <<(IF rem[n] = 0 THEN 0 ELSE 1)>>

\* a / b for integers 0 <= a <= b, 0 < b.
Divide(a, b) ==
  IF a = 0 THEN Zero
  ELSE LET k == CHOOSE k \in 0..Precision : a * Pow(2, k) >= b /\ (k = 0 \/ a * Pow(2, k - 1) < b)
           n == a * Pow(2, k)
       IN  RoundToNearestEven(<<1>> \o QuotientBits(n - b, b, Precision),
                              0 - k - Precision - 1)

\* x * n for a small natural n.
Times(x, n) ==
  IF x = Zero \/ n = 0 THEN Zero
  ELSE RoundToNearestEven(MulSmall(x.bits, n), x.exp)

\* Faulty variant: the digits after the last one kept are cut off.
toFixedScaled_Truncating(x) ==
  IF x = Zero THEN 0
  ELSE LET exact == MulSmall(x.bits, Pow(10, FractionDigits))
           whole == Len(exact) + x.exp
       IN  IF whole < 0 THEN 0 ELSE BitsNat(SubSeq(exact, 1, whole))

\* Number.prototype.toFixed(FractionDigits), step "let n be an integer for
\* which n / 10^f - x is as close to zero as possible; if there are two
\* such n, pick the larger": the integer n.
toFixedScaled(x) ==
  IF x = Zero THEN 0
  ELSE LET exact == MulSmall(x.bits, Pow(10, FractionDigits))
           whole == Len(exact) + x.exp
       IN  IF whole < 0 THEN 0
           ELSE BitsNat(SubSeq(exact, 1, whole))
                + (IF whole < Len(exact) THEN exact[whole + 1] ELSE 0)

DecimalDigits == <<"0", "1", "2", "3", "4", "5", "6", "7", "8", "9">>

RECURSIVE NatText(_)
NatText(n) ==
  IF n < 10 THEN <<DecimalDigits[n + 1]>>
  ELSE NatText(n \div 10) \o <<DecimalDigits[(n % 10) + 1]>>

RECURSIVE FractionText(_, _)
FractionText(n, digits) ==
  IF digits = 0 THEN <<>>
  ELSE FractionText(n \div 10, digits - 1) \o <<DecimalDigits[(n % 10) + 1]>>

\* toFixed: the decimal text of n / 10^f, a sequence of characters.
FixedText(n) ==
  NatText(n \div Pow(10, FractionDigits)) \o <<".">>
    \o FractionText(n % Pow(10, FractionDigits), FractionDigits)

toFixed(x) == FixedText(toFixedScaled(x))

(***************************************************************************)
(* JSON.stringify / JSON.parse over leaderboards.  A text is a sequence of *)
(* tokens: "[" entry* "]".  The entries the cache is exercised with are    *)
(* "{" username digit "}"; an entry of getChallengeLeaderboard has all     *)
(* eight fields, the last of them a string between quotes.                 *)
(***************************************************************************)
Digits == <<"0", "1", "2">>

NumberToText(n) == Digits[n + 1]
TextToNumber(t) == CHOOSE n \in Streaks : Digits[n + 1] = t

Quote == "\""
StringToText(chars) == <<Quote>> \o chars \o <<Quote>>

IsFullEntry(e) == "totalDays" \in DOMAIN e

EncodeEntry(e) ==
  IF IsFullEntry(e)
  THEN <<"{", e.username, e.leetcodeUsername, NumberToText(e.currentStreak),
         NumberToText(e.longestStreak), NumberToText(e.totalPenalties),
         NumberToText(e.completedDays), NumberToText(e.totalDays)>>
         \o StringToText(e.completionRate) \o <<"}">>
  ELSE <<"{", e.username, NumberToText(e.currentStreak), "}">>

RECURSIVE EncodeEntries(_)
EncodeEntries(s) ==
  IF s = <<>> THEN <<>> ELSE EncodeEntry(Head(s)) \o EncodeEntries(Tail(s))

\* Faulty variant: the closing bracket is lost.
JSONstringify_Unclosed(data) == <<"[">> \o EncodeEntries(data)

JSONstringify(data) == <<"[">> \o EncodeEntries(data) \o <<"]">>

ShortWidth == Len(EncodeEntry(Entry("alice", 0)))
\* Tokens of a full entry before its string, and after the string's text.
FullHead == 8
FullTail == 2

IsNumberText(t) == \E n \in Streaks : Digits[n + 1] = t

WellFormedEntry(c) ==
  IF Len(c) = ShortWidth
  THEN /\ c[1] = "{"
       /\ c[2] \in Usernames
       /\ IsNumberText(c[3])
       /\ c[4] = "}"
  ELSE /\ Len(c) > FullHead + FullTail
       /\ c[1] = "{"
       /\ c[2] \in Usernames
       /\ c[3] \in Usernames
       /\ \A i \in 4..FullHead : IsNumberText(c[i])
       /\ c[FullHead + 1] = Quote
       /\ \A i \in (FullHead + 2)..(Len(c) - FullTail) :
            c[i] = "." \/ \E d \in 1..Len(DecimalDigits) : DecimalDigits[d] = c[i]
       /\ c[Len(c) - 1] = Quote
       /\ c[Len(c)] = "}"

DecodeEntry(c) ==
  IF Len(c) = ShortWidth THEN Entry(c[2], TextToNumber(c[3]))
  ELSE [username |-> c[2], leetcodeUsername |-> c[3],
        currentStreak |-> TextToNumber(c[4]), longestStreak |-> TextToNumber(c[5]),
        totalPenalties |-> TextToNumber(c[6]), completedDays |-> TextToNumber(c[7]),
        totalDays |-> TextToNumber(c[8]),
        completionRate |-> SubSeq(c, FullHead + 2, Len(c) - FullTail)]

SyntaxError == [threw |-> TRUE, value |-> null]

\* The entries are the stretches of the text that end in a closing brace.
ParseText(text) ==
  IF \/ Len(text) < 2
     \/ text[1] # "["
     \/ text[Len(text)] # "]"
  THEN SyntaxError
  ELSE LET closes == {i \in 2..(Len(text) - 1) : text[i] = "}"}
           n == Cardinality(closes)
           close == [j \in 1..n |->
                       CHOOSE i \in closes : Cardinality({q \in closes : q <= i}) = j]
           chunk == [j \in 1..n |->
                       SubSeq(text, IF j = 1 THEN 2 ELSE close[j - 1] + 1, close[j])]
       IN  IF /\ (n = 0 => Len(text) = 2)
              /\ (n > 0 => close[n] = Len(text) - 1)
              /\ \A j \in 1..n : WellFormedEntry(chunk[j])
           THEN [threw |-> FALSE, value |-> Val([j \in 1..n |-> DecodeEntry(chunk[j])])]
           ELSE SyntaxError

\* JSON.parse is a function of its text: the texts the handlers are given in
\* SetInputs are parsed once and looked up afterwards, any other text is
\* parsed where it is met.
ParsedPayloads == [text \in {JSONstringify(in[1]) : in \in SetInputs} |-> ParseText(text)]

JSONparse(text) ==
  IF text \in DOMAIN ParsedPayloads THEN ParsedPayloads[text] ELSE ParseText(text)

\* Payloads another writer, or an earlier release, may have left in Redis.
MalformedPayload == <<"[", "{", "alice">>
EmptyPayload == <<>>

(***************************************************************************)
(* Keys.                                                                   *)
(***************************************************************************)
\* Faulty variant: the key leaves the challenge id out.
buildKey_PrefixOnly(challengeId) == <<CACHE_PREFIX, "">>

buildKey(challengeId) == <<CACHE_PREFIX, challengeId>>
Keys == {buildKey(c) : c \in ChallengeIds}

(***************************************************************************)
(* Fallback Store: memoryCache is a Map from key to {data, expiresAt}.     *)
(***************************************************************************)
NoEntry == [present |-> FALSE, data |-> null, expiresAt |-> 0]
MemEntry(data, expiresAt) == [present |-> TRUE, data |-> data, expiresAt |-> expiresAt]

\* Faulty variant: expiresAt is never looked at.
memoryGet_NoExpiry(cache, key, t) ==
  [data |-> cache[key].data, cache |-> cache]

\* Faulty variant: an entry is taken as expired from the instant in expiresAt.
memoryGet_ExpiredAtInstant(cache, key, t) ==
  LET entry == cache[key] IN
  IF ~entry.present THEN [data |-> null, cache |-> cache]
  ELSE IF t >= entry.expiresAt
       THEN [data |-> null, cache |-> [cache EXCEPT ![key] = NoEntry]]
       ELSE [data |-> entry.data, cache |-> cache]

\* memoryGet: the returned data and the Map it leaves behind.
memoryGet(cache, key, t) ==
  LET entry == cache[key] IN
  IF ~entry.present THEN [data |-> null, cache |-> cache]
  ELSE IF t > entry.expiresAt
       THEN [data |-> null, cache |-> [cache EXCEPT ![key] = NoEntry]]
       ELSE [data |-> entry.data, cache |-> cache]

memorySet(cache, key, data, ttl, t) ==
  [cache EXCEPT ![key] = MemEntry(data, t + ttl * MsPerSecond)]

\* Faulty variant: the key is kept, with an entry that has run out.
memoryDel_Tombstone(cache, key) == [cache EXCEPT ![key] = MemEntry(null, 0)]

memoryDel(cache, key) == [cache EXCEPT ![key] = NoEntry]

(***************************************************************************)
(* The Redis server behind getRedisClient(): GET, SET key value EX ttl,    *)
(* DEL.  A key whose expiry time has passed is not visible to GET.         *)
(***************************************************************************)
NoRecord == [present |-> FALSE, payload |-> <<>>, expiresAt |-> 0]
RedisRecord(payload, expiresAt) ==
  [present |-> TRUE, payload |-> payload, expiresAt |-> expiresAt]

RedisGet(store, key, t) ==
  LET r == store[key] IN
  IF r.present /\ ~(t > r.expiresAt) THEN Val(r.payload) ELSE null

RedisSetEx(store, key, payload, ttl, t) ==
  [store EXCEPT ![key] = RedisRecord(payload, t + ttl * MsPerSecond)]

RedisDel(store, key) == [store EXCEPT ![key] = NoRecord]

(***************************************************************************)
(* State.                                                                  *)
(***************************************************************************)
VARIABLES
  redisClient,   \* redis.js: the client handle, "client" or "null"
  isConnected,   \* redis.js: the readiness flag the event handlers keep
  status,        \* the connection behind the client
  memoryCache,   \* cache.service.js: the Fallback Store's Map
  redisStore,    \* the Redis server's keyspace
  pending,       \* commands sent on the connection and not yet answered
  call,          \* per task: the handler it is suspended in
  now,           \* Date.now(), in ms
  calls,         \* number of handler calls started
  ret,           \* history: the call that returned in the last step, and what it saw
  lastWrite,     \* history: per challenge, the last set/invalidate started
  chain,         \* history: per challenge, consecutive invalidations
  issuedWhileDown, \* history: a command was sent while the client was not ready
  origin         \* history: per tier and key, the set call whose write the record is

VARIABLES
  retryAttempts, \* ioredis: reconnections asked of retryStrategy since the last connect
  retryDelay,    \* ioredis: the delay retryStrategy gave for the reconnection under way
  waited,        \* ms gone by since the connection was last closed
  failed,        \* history: connection attempts failed since the last connect
  event          \* history: the last client event handled

VARIABLES
  dailyResults,  \* dashboard controller: the DailyResults read for one member
  stats          \* dashboard controller: the statistics computed from them

VARIABLES
  db,            \* persistence: per user, the membership row and its DailyResults
  dbVersion,     \* history: number of changes committed to db
  request,       \* getChallengeLeaderboard: the request under way, at its await
  requests,      \* number of requests started
  response,      \* the last response sent, with the history of its request
  collab,        \* the collaborator that changes db and invalidates the cache
  stored         \* history: per tier, the last leaderboard a request stored there

connVars == <<retryAttempts, retryDelay, waited, failed, event>>
statsVars == <<dailyResults, stats>>
boardVars == <<db, dbVersion, request, requests, response, collab, stored>>
otherVars == <<connVars, statsVars, boardVars>>

vars == <<redisClient, isConnected, status, memoryCache, redisStore, pending,
          call, now, calls, ret, lastWrite, chain, issuedWhileDown, origin,
          otherVars>>

\* Faulty variant: the readiness flag is not consulted.
isRedisReady_ClientOnly == redisClient # "null"

isRedisReady == redisClient # "null" /\ isConnected

(***************************************************************************)
(* Cache Manager: the code of each handler up to its await (...Start) and    *)
(* after it (...Done), as functions of what the handler reads.  Each yields  *)
(* the Map it leaves, the command it sends (if any) and what it returns.   *)
(***************************************************************************)
NoCmd == <<>>
Cmd(op, key, payload, ttl) == <<[op |-> op, key |-> key, payload |-> payload, ttl |-> ttl]>>

Returned(value, cache, memRead) ==
  [raised |-> FALSE, returned |-> TRUE, value |-> value, cache |-> cache,
   memRead |-> memRead, cmd |-> NoCmd]
Threw(cache) ==
  [raised |-> TRUE, returned |-> TRUE, value |-> null, cache |-> cache,
   memRead |-> FALSE, cmd |-> NoCmd]
Awaiting(cache, cmd) ==
  [raised |-> FALSE, returned |-> FALSE, value |-> null, cache |-> cache,
   memRead |-> FALSE, cmd |-> cmd]

\* A reply of the client: the promise resolves with data, or rejects.
Resolved(data) == [threw |-> FALSE, data |-> data]
Rejected == [threw |-> TRUE, data |-> null]

\* Lines 78-86: the in-memory fallback of getLeaderboardCache.
getLeaderboardCacheFallback(cache, key, t) ==
  LET m == memoryGet(cache, key, t) IN
  IF TruthyArray(m.data) THEN Returned(m.data, m.cache, TRUE)
  ELSE Returned(null, m.cache, TRUE)

\* Lines 60-66.
getLeaderboardCacheStart(cache, ready, challengeId, t) ==
  LET key == buildKey(challengeId) IN
  IF ready THEN Awaiting(cache, Cmd("get", key, <<>>, 0))
  ELSE getLeaderboardCacheFallback(cache, key, t)

\* Faulty variants of the code after the await.  Without the try/catch:
getLeaderboardCacheDone_NoCatch(cache, key, reply, t) ==
  IF reply.threw THEN Threw(cache)
  ELSE IF TruthyString(reply.data)
       THEN LET parsed == JSONparse(reply.data.v) IN
            IF parsed.threw THEN Threw(cache)
            ELSE Returned(parsed.value, cache, FALSE)
       ELSE Returned(null, cache, FALSE)

\* With a catch that returns null:
getLeaderboardCacheDone_ErrorIsMiss(cache, key, reply, t) ==
  IF reply.threw THEN Returned(null, cache, FALSE)
  ELSE IF TruthyString(reply.data)
       THEN LET parsed == JSONparse(reply.data.v) IN
            IF parsed.threw THEN getLeaderboardCacheFallback(cache, key, t)
            ELSE Returned(parsed.value, cache, FALSE)
       ELSE Returned(null, cache, FALSE)

\* With a durable miss that falls through to the Fallback Store:
getLeaderboardCacheDone_MissFallsThrough(cache, key, reply, t) ==
  IF reply.threw THEN getLeaderboardCacheFallback(cache, key, t)
  ELSE IF TruthyString(reply.data)
       THEN LET parsed == JSONparse(reply.data.v) IN
            IF parsed.threw THEN getLeaderboardCacheFallback(cache, key, t)
            ELSE Returned(parsed.value, cache, FALSE)
       ELSE getLeaderboardCacheFallback(cache, key, t)

\* With the decode in a try/catch of its own that returns null:
getLeaderboardCacheDone_ParseIsMiss(cache, key, reply, t) ==
  IF reply.threw THEN getLeaderboardCacheFallback(cache, key, t)
  ELSE IF TruthyString(reply.data)
       THEN LET parsed == JSONparse(reply.data.v) IN
            IF parsed.threw THEN Returned(null, cache, FALSE)
            ELSE Returned(parsed.value, cache, FALSE)
       ELSE Returned(null, cache, FALSE)

\* Lines 66-76, then 78-86: the reply is read inside the try block, whose
\* catch logs and falls out of the `if` to the fallback.
getLeaderboardCacheDone(cache, key, reply, t) ==
  IF reply.threw THEN getLeaderboardCacheFallback(cache, key, t)
  ELSE IF TruthyString(reply.data)
       THEN LET parsed == JSONparse(reply.data.v) IN
            IF parsed.threw THEN getLeaderboardCacheFallback(cache, key, t)
            ELSE Returned(parsed.value, cache, FALSE)
       ELSE Returned(null, cache, FALSE)

\* Faulty variant: the Fallback Store is written only when the client is not
\* ready.
setLeaderboardCacheStart_DurableOnly(cache, ready, challengeId, data, ttl, t) ==
  LET key == buildKey(challengeId) IN
  IF ready THEN Awaiting(cache, Cmd("set", key, JSONstringify(data), ttl))
  ELSE Returned(null, memorySet(cache, key, Val(data), ttl, t), FALSE)

\* Faulty variant: the Fallback Store keeps the entry a second longer than
\* the TTL it was given.
setLeaderboardCacheStart_LongerInMemory(cache, ready, challengeId, data, ttl, t) ==
  LET key == buildKey(challengeId)
      written == memorySet(cache, key, Val(data), ttl + 1, t)
  IN  IF ready THEN Awaiting(written, Cmd("set", key, JSONstringify(data), ttl))
      ELSE Returned(null, written, FALSE)

\* Lines 97-106.
setLeaderboardCacheStart(cache, ready, challengeId, data, ttl, t) ==
  LET key == buildKey(challengeId)
      written == memorySet(cache, key, Val(data), ttl, t)
  IN  IF ready THEN Awaiting(written, Cmd("set", key, JSONstringify(data), ttl))
      ELSE Returned(null, written, FALSE)

\* Lines 106-113: a rejected write is caught and logged.
setLeaderboardCacheDone(cache, reply) == Returned(null, cache, FALSE)

\* Faulty variant: the Fallback Store is cleared only when the client is not
\* ready.
invalidateLeaderboardCacheStart_DurableOnly(cache, ready, challengeId) ==
  LET key == buildKey(challengeId) IN
  IF ready THEN Awaiting(cache, Cmd("del", key, <<>>, 0))
  ELSE Returned(null, memoryDel(cache, key), FALSE)

\* Faulty variant: the Fallback Store is never cleared.
invalidateLeaderboardCacheStart_KeepsFallback(cache, ready, challengeId) ==
  LET key == buildKey(challengeId) IN
  IF ready THEN Awaiting(cache, Cmd("del", key, <<>>, 0))
  ELSE Returned(null, cache, FALSE)

\* Lines 123-132.
invalidateLeaderboardCacheStart(cache, ready, challengeId) ==
  LET key == buildKey(challengeId)
      cleared == memoryDel(cache, key)
  IN  IF ready THEN Awaiting(cleared, Cmd("del", key, <<>>, 0))
      ELSE Returned(null, cleared, FALSE)

\* Lines 132-137: a rejected delete is caught and logged.
invalidateLeaderboardCacheDone(cache, reply) == Returned(null, cache, FALSE)

(***************************************************************************)
(* The server's handling of one command, and the reply the client gives:   *)
(* "ok", the server ran the command and the promise resolves; "error", the *)
(* command did not reach the server (connection reset, timeout, the        *)
(* client's retry limit) and the promise rejects.                          *)
(***************************************************************************)
Outcomes == {"ok", "error"}

Apply(cmd, store, t) ==
  IF cmd.op = "set" THEN RedisSetEx(store, cmd.key, cmd.payload, cmd.ttl, t)
  ELSE IF cmd.op = "del" THEN RedisDel(store, cmd.key)
  ELSE store

Serve(cmd, outcome, store, t) ==
  IF outcome = "error" THEN [store |-> store, reply |-> Rejected]
  ELSE [store |-> Apply(cmd, store, t),
        reply |-> Resolved(IF cmd.op = "get" THEN RedisGet(store, cmd.key, t) ELSE null)]

(***************************************************************************)
(* History records.                                                        *)
(***************************************************************************)
NoKey == <<"-", "-">>
Idle ==
  [op |-> "idle", id |-> "-", key |-> NoKey, data |-> <<>>, ttl |-> 0,
   latest |-> FALSE, issuedAt |-> 0]

NoWrite ==
  [kind |-> "none", data |-> <<>>, ttl |-> 0, at |-> 0, done |-> FALSE,
   mode |-> "none"]

NoRet ==
  [op |-> "none", id |-> "-", raised |-> FALSE, value |-> null,
   reply |-> "none", redisData |-> null, memRead |-> FALSE, memHeld |-> null,
   lw |-> NoWrite, sawDone |-> FALSE, issuedAt |-> 0, at |-> 0]

NoChain == [phase |-> "none", mem0 |-> NoEntry, red0 |-> NoRecord]

\* The set call behind a record: what it was given, when it started and when
\* the tier stored its write.
Tiers == {"memory", "redis"}
NoOrigin == [known |-> FALSE, data |-> <<>>, ttl |-> 0, startedAt |-> 0, storedAt |-> 0]
Origin(data, ttl, startedAt, storedAt) ==
  [known |-> TRUE, data |-> data, ttl |-> ttl, startedAt |-> startedAt,
   storedAt |-> storedAt]
\* The origin of the record a write by call c leaves in a tier at time t.
WrittenBy(c, t) ==
  IF c.op = "set" THEN Origin(c.data, c.ttl, c.issuedAt, t) ELSE NoOrigin

\* What the Fallback Store holds, unexpired, for a key at time t.
Held(cache, key, t) ==
  IF cache[key].present /\ t <= cache[key].expiresAt THEN cache[key].data ELSE null

\* A write in progress stops being one made under a steady client when the
\* client's readiness changes.
Disturbed(lw) == [id \in ChallengeIds |->
  IF lw[id].kind = "none" THEN lw[id] ELSE [lw[id] EXCEPT !.mode = "mixed"]]

\* Once a write for id starts, no call in flight for id is the latest write
\* for id, nor a read that follows the latest write.
Overtaken(c, id) == [q \in Procs |->
  IF c[q].id = id THEN [c[q] EXCEPT !.latest = FALSE] ELSE c[q]]

\* The return of call c: lw is the last write started for c.id, which is c
\* itself when c is a write and c.latest holds.
Return(c, r, replyKind, redisData, held, lw) ==
  [op |-> c.op, id |-> c.id, raised |-> r.raised,
   value |-> r.value, reply |-> replyKind, redisData |-> redisData,
   memRead |-> r.memRead, memHeld |-> held, lw |-> lw,
   sawDone |-> c.latest, issuedAt |-> c.issuedAt, at |-> now]

(***************************************************************************)
(* Init: the process has loaded redis.js (createRedisClient has run and    *)
(* connect() is under way, or `new Redis` threw) and cache.service.js (an  *)
(* empty Map).  The shared Redis server holds whatever was left in it.     *)
(***************************************************************************)
InitExpiry == Horizon
LeftOver(id) ==
  RedisRecord(IF id = "c1" THEN MalformedPayload ELSE EmptyPayload, InitExpiry)
InitStores ==
  { [k \in Keys |-> NoRecord],
    [k \in Keys |-> LeftOver(CHOOSE id \in ChallengeIds : buildKey(id) = k)] }

InitCache ==
  /\ redisClient \in {"client", "null"}
  /\ isConnected = FALSE
  /\ status = IF redisClient = "null" THEN "none" ELSE "connecting"
  /\ memoryCache = [k \in Keys |-> NoEntry]
  /\ redisStore \in InitStores
  /\ pending = <<>>
  /\ call = [p \in Procs |-> Idle]
  /\ now = 0
  /\ calls = 0
  /\ ret = NoRet
  /\ lastWrite = [id \in ChallengeIds |-> NoWrite]
  /\ chain = [id \in ChallengeIds |-> NoChain]
  /\ issuedWhileDown = FALSE
  /\ origin = [tier \in Tiers |-> [k \in Keys |-> NoOrigin]]
  /\ retryAttempts = 0
  /\ retryDelay = 0
  /\ waited = 0
  /\ failed = 0
  /\ event = "none"

NoStats ==
  [by |-> "none", totalDays |-> 0, completedDays |-> 0, failedDays |-> 0,
   completionRate |-> <<>>]

\* A membership row with the DailyResults of the member.
Row(isActive, currentStreak, longestStreak, totalPenalties, results) ==
  [isActive |-> isActive, currentStreak |-> currentStreak,
   longestStreak |-> longestStreak, totalPenalties |-> totalPenalties,
   results |-> results]
NoRows == [u \in Usernames |-> Row(FALSE, 0, 0, 0, <<>>)]

NoRequest ==
  [pc |-> "idle", lookup |-> null, members |-> <<>>, results |-> <<>>,
   leaderboard |-> <<>>, readAt |-> 0, queries |-> 0, stores |-> 0]
NoResponse ==
  [status |-> "none", data |-> null, lookup |-> null, members |-> <<>>,
   results |-> <<>>, queries |-> 0, stores |-> 0]
NoCollab == [pc |-> "idle", started |-> 0, done |-> 0, deleted |-> 0]
NotStored == [version |-> 0 - 1, late |-> FALSE, data |-> <<>>]

InitStats0 ==
  /\ dailyResults = <<>>
  /\ stats = NoStats

InitBoard0 ==
  /\ db = NoRows
  /\ dbVersion = 0
  /\ request = NoRequest
  /\ requests = 0
  /\ response = NoResponse
  /\ collab = NoCollab
  /\ stored = [tier \in Tiers |-> NotStored]

Init ==
  /\ InitCache
  /\ InitStats0
  /\ InitBoard0

(***************************************************************************)
(* redis.js: the client's event handlers.                                  *)
(***************************************************************************)
OnConnect ==
  /\ redisClient = "client" /\ status = "connecting"
  /\ status' = "connected"
  /\ isConnected' = TRUE
  /\ lastWrite' = Disturbed(lastWrite)
  /\ ret' = NoRet
  /\ UNCHANGED <<redisClient, memoryCache, redisStore, pending, call, now, calls,
                 chain, issuedWhileDown, origin>>
  /\ UNCHANGED otherVars

OnError ==
  /\ redisClient = "client" /\ status \in {"connecting", "connected"}
  /\ isConnected' = FALSE
  /\ lastWrite' = IF isConnected THEN Disturbed(lastWrite) ELSE lastWrite
  /\ ret' = NoRet
  /\ UNCHANGED <<redisClient, status, memoryCache, redisStore, pending, call, now,
                 calls, chain, issuedWhileDown, origin>>
  /\ UNCHANGED otherVars

\* "close": the socket is gone; the client's retryStrategy schedules the next
\* connection attempt.
OnClose ==
  /\ redisClient = "client" /\ status \in {"connecting", "connected"}
  /\ status' = "connecting"
  /\ isConnected' = FALSE
  /\ lastWrite' = IF isConnected THEN Disturbed(lastWrite) ELSE lastWrite
  /\ ret' = NoRet
  /\ UNCHANGED <<redisClient, memoryCache, redisStore, pending, call, now, calls,
                 chain, issuedWhileDown, origin>>
  /\ UNCHANGED otherVars

\* Time passes.  Only the age of a record a handler wrote is observable, so
\* the clock is let run once there is one.
Written ==
  \E k \in Keys :
    \/ memoryCache[k].present
    \/ redisStore[k].present /\ redisStore[k].payload \notin {MalformedPayload, EmptyPayload}

Tick ==
  /\ Written
  /\ now < Horizon
  /\ now' = now + MsPerSecond
  /\ ret' = NoRet
  /\ UNCHANGED <<redisClient, isConnected, status, memoryCache, redisStore, pending,
                 call, calls, lastWrite, chain, issuedWhileDown, origin>>
  /\ UNCHANGED otherVars

(***************************************************************************)
(* The handlers.  Start(p, ...) runs a handler up to its await, or to its  *)
(* return when it sends no command; Finish(p, ...) runs it from the reply  *)
(* to its return.                                                          *)
(***************************************************************************)
NewCall(op, id, data, ttl) ==
  [op |-> op, id |-> id, key |-> buildKey(id), data |-> data, ttl |-> ttl,
   latest |-> (op = "get" => lastWrite[id].done),
   issuedAt |-> now]

NewWrite(kind, c, r) ==
  [kind |-> kind, data |-> c.data, ttl |-> c.ttl, at |-> now,
   done |-> r.returned,
   mode |-> IF redisClient = "client" /\ isConnected THEN "healthy" ELSE "down"]

\* Tasks are interchangeable: a free task with no free task before it starts.
FirstFree(p) ==
  /\ call[p] = Idle
  /\ \A q \in Procs : call[q] = Idle => ProcOrder[p] <= ProcOrder[q]

Start(p, c, r, lw) ==
  /\ FirstFree(p)
  /\ calls' = calls + 1
  /\ memoryCache' = r.cache
  /\ pending' = IF r.returned THEN pending
                ELSE Append(pending, [proc |-> p, cmd |-> r.cmd[1]])
  /\ ret' = IF r.returned
            THEN Return(c, r, "notready", null, Held(memoryCache, c.key, now), lw)
            ELSE NoRet
  /\ call' = LET others == IF c.op = "get" THEN call ELSE Overtaken(call, c.id)
             IN  IF r.returned THEN others ELSE [others EXCEPT ![p] = c]
  /\ issuedWhileDown' =
       (issuedWhileDown \/ (~r.returned /\ ~(redisClient = "client" /\ isConnected)))
  /\ origin' = IF c.op = "get" THEN origin
               ELSE [origin EXCEPT !["memory"][c.key] = WrittenBy(c, now)]
  /\ UNCHANGED <<redisClient, isConnected, status, redisStore, now>>
  /\ UNCHANGED otherVars

GetStart(p, id) ==
  LET c == NewCall("get", id, <<>>, 0)
      r == getLeaderboardCacheStart(memoryCache, isRedisReady, id, now)
  IN  /\ Start(p, c, r, lastWrite[id])
      /\ chain' = [chain EXCEPT ![id] = NoChain]
      /\ UNCHANGED lastWrite

SetStart(p, id, data, ttl) ==
  LET c == NewCall("set", id, data, ttl)
      r == setLeaderboardCacheStart(memoryCache, isRedisReady, id, data, ttl, now)
  IN  /\ Start(p, c, r, NewWrite("set", c, r))
      /\ chain' = [chain EXCEPT ![id] = NoChain]
      /\ lastWrite' = [lastWrite EXCEPT ![id] = NewWrite("set", c, r)]

InvStart(p, id) ==
  LET c == NewCall("inv", id, <<>>, 0)
      r == invalidateLeaderboardCacheStart(memoryCache, isRedisReady, id)
      ch == chain[id]
  IN  /\ Start(p, c, r, NewWrite("inv", c, r))
      /\ lastWrite' = [lastWrite EXCEPT ![id] = NewWrite("inv", c, r)]
      /\ chain' = [chain EXCEPT ![id] =
           IF ch.phase = "once"
           THEN [ch EXCEPT !.phase = IF r.returned THEN "twice" ELSE "second"]
           ELSE [phase |-> IF r.returned THEN "once" ELSE "first",
                 mem0 |-> memoryCache[c.key], red0 |-> redisStore[c.key]]]

Finish(p, outcome, r) ==
  LET c == call[p]
      cmd == Head(pending).cmd
      s == Serve(cmd, outcome, redisStore, now)
      lw == IF c.op # "get" /\ c.latest
            THEN [lastWrite[c.id] EXCEPT
                    !.done = TRUE, !.at = now,
                    !.mode = IF outcome = "ok" THEN @ ELSE "mixed"]
            ELSE lastWrite[c.id]
  IN  /\ redisStore' = s.store
      /\ memoryCache' = r.cache
      /\ pending' = Tail(pending)
      /\ call' = [call EXCEPT ![p] = Idle]
      /\ ret' = Return(c, r, outcome, s.reply.data, Held(memoryCache, c.key, now), lw)
      /\ lastWrite' = [lastWrite EXCEPT ![c.id] = lw]
      /\ origin' = IF c.op = "get" \/ outcome # "ok" THEN origin
                   ELSE [origin EXCEPT !["redis"][c.key] = WrittenBy(c, now)]
      /\ chain' = [chain EXCEPT ![c.id] =
           IF c.op = "inv" /\ c.latest /\ @.phase = "first"
           THEN [@ EXCEPT !.phase = "once"]
           ELSE IF c.op = "inv" /\ c.latest /\ @.phase = "second"
           THEN [@ EXCEPT !.phase = "twice"]
           ELSE NoChain]
      /\ UNCHANGED <<redisClient, isConnected, status, now, calls, issuedWhileDown>>
      /\ UNCHANGED otherVars

Answered(p, op, outcome) ==
  /\ pending # <<>>
  /\ Head(pending).proc = p
  /\ call[p].op = op
  /\ outcome = "ok" => status = "connected"

Reply(outcome) ==
  Serve(Head(pending).cmd, outcome, redisStore, now).reply

GetDone(p, outcome) ==
  /\ Answered(p, "get", outcome)
  /\ Finish(p, outcome,
            getLeaderboardCacheDone(memoryCache, call[p].key, Reply(outcome), now))

SetDone(p, outcome) ==
  /\ Answered(p, "set", outcome)
  /\ Finish(p, outcome, setLeaderboardCacheDone(memoryCache, Reply(outcome)))

InvDone(p, outcome) ==
  /\ Answered(p, "inv", outcome)
  /\ Finish(p, outcome, invalidateLeaderboardCacheDone(memoryCache, Reply(outcome)))

Next ==
  \/ \E p \in Procs, id \in ChallengeIds : calls < MaxCalls /\ GetStart(p, id)
  \/ \E p \in Procs, id \in ChallengeIds, in \in SetInputs :
       calls < MaxCalls /\ SetStart(p, id, in[1], in[2])
  \/ \E p \in Procs, id \in ChallengeIds : calls < MaxCalls /\ InvStart(p, id)
  \/ \E p \in Procs, outcome \in Outcomes : GetDone(p, outcome)
  \/ \E p \in Procs, outcome \in Outcomes : SetDone(p, outcome)
  \/ \E p \in Procs, outcome \in Outcomes : InvDone(p, outcome)
  \/ OnConnect
  \/ OnError
  \/ OnClose
  \/ Tick

Spec == Init /\ [][Next]_vars

(***************************************************************************)
(* The same program with one task calling the handlers one after another,  *)
(* followed through longer sequences of calls.                             *)
(***************************************************************************)
NextSeq ==
  \/ \E id \in ChallengeIds : calls < MaxSeqCalls /\ GetStart("p1", id)
  \/ \E id \in ChallengeIds, in \in SetInputs :
       calls < MaxSeqCalls /\ SetStart("p1", id, in[1], in[2])
  \/ \E id \in ChallengeIds : calls < MaxSeqCalls /\ InvStart("p1", id)
  \/ \E outcome \in Outcomes : GetDone("p1", outcome)
  \/ \E outcome \in Outcomes : SetDone("p1", outcome)
  \/ \E outcome \in Outcomes : InvDone("p1", outcome)
  \/ OnConnect
  \/ OnError
  \/ OnClose
  \/ Tick

SpecSeq == Init /\ [][NextSeq]_vars

(***************************************************************************)
(* redis.js with the reconnection schedule of the client.  ioredis asks    *)
(* retryStrategy for a delay each time the connection closes, passing the  *)
(* number of the reconnection it is about to make, counted from the last   *)
(* connection that succeeded; a result that is no number ends the client.  *)
(***************************************************************************)
RetryStepMs == 500
RetryCapMs == 2000
MaxRetryTimes == 3

Min(a, b) == IF a < b THEN a ELSE b

StopRetrying == [stop |-> TRUE, delay |-> 0]
RetryAfter(ms) == [stop |-> FALSE, delay |-> ms]

\* Faulty variant: the limit is reached one call early.
retryStrategy_StopsAtLimit(times) ==
  IF times >= MaxRetryTimes THEN StopRetrying
  ELSE RetryAfter(Min(times * RetryStepMs, RetryCapMs))

\* redis.js lines 16-22.
retryStrategy(times) ==
  IF times > MaxRetryTimes THEN StopRetrying
  ELSE RetryAfter(Min(times * RetryStepMs, RetryCapMs))

ConnFrame ==
  UNCHANGED <<redisClient, memoryCache, redisStore, pending, call, now, calls, ret,
              lastWrite, chain, issuedWhileDown, origin, statsVars, boardVars>>

\* Lines 26-29: the connection is up; the client starts counting afresh.
ConnectEvent ==
  /\ redisClient = "client" /\ status = "connecting"
  /\ status' = "connected"
  /\ isConnected' = TRUE
  /\ retryAttempts' = 0
  /\ failed' = 0
  /\ event' = "connect"
  /\ UNCHANGED <<retryDelay, waited>>
  /\ ConnFrame

\* Faulty variant: the handler logs and leaves the flag alone.
ErrorEvent_KeepsFlag ==
  /\ redisClient = "client" /\ status \in {"connecting", "connected"}
  /\ event' = "error"
  /\ UNCHANGED <<isConnected, status, retryAttempts, retryDelay, waited, failed>>
  /\ ConnFrame

\* Lines 31-34.
ErrorEvent ==
  /\ redisClient = "client" /\ status \in {"connecting", "connected"}
  /\ isConnected' = FALSE
  /\ event' = "error"
  /\ UNCHANGED <<status, retryAttempts, retryDelay, waited, failed>>
  /\ ConnFrame

\* Lines 36-39 (and 42-45 when the first attempt fails), then the client's
\* call of retryStrategy (lines 16-22).
CloseEvent ==
  /\ redisClient = "client" /\ status \in {"connecting", "connected"}
  /\ isConnected' = FALSE
  /\ event' = "close"
  /\ retryAttempts' = retryAttempts + 1
  /\ failed' = IF status = "connecting" THEN failed + 1 ELSE failed
  /\ waited' = 0
  /\ LET answer == retryStrategy(retryAttempts + 1) IN
       IF answer.stop
       THEN status' = "end" /\ UNCHANGED retryDelay
       ELSE status' = "wait" /\ retryDelay' = answer.delay
  /\ ConnFrame

\* The reconnection timer runs.
Wait ==
  /\ status = "wait"
  /\ waited < retryDelay
  /\ waited' = waited + RetryStepMs
  /\ UNCHANGED <<isConnected, status, retryAttempts, retryDelay, failed, event>>
  /\ ConnFrame

\* The reconnection timer fires: the next connection attempt starts.
Reconnect ==
  /\ status = "wait"
  /\ waited >= retryDelay
  /\ status' = "connecting"
  /\ UNCHANGED <<isConnected, retryAttempts, retryDelay, waited, failed, event>>
  /\ ConnFrame

\* Lines 72-81: quit() is answered and the server closes the connection; a
\* client closed on purpose does not reconnect.
disconnectRedis ==
  /\ redisClient = "client" /\ status = "connected"
  /\ status' = "closed"
  /\ isConnected' = FALSE
  /\ event' = "close"
  /\ UNCHANGED <<retryAttempts, retryDelay, waited, failed>>
  /\ ConnFrame

\* The handlers called by one task while the connection comes and goes.
NextConn ==
  \/ ConnectEvent
  \/ ErrorEvent
  \/ CloseEvent
  \/ Wait
  \/ Reconnect
  \/ disconnectRedis
  \/ \E id \in ChallengeIds : calls < MaxConnCalls /\ GetStart("p1", id)
  \/ \E id \in ChallengeIds, in \in SetInputs :
       calls < MaxConnCalls /\ SetStart("p1", id, in[1], in[2])
  \/ \E id \in ChallengeIds : calls < MaxConnCalls /\ InvStart("p1", id)
  \/ \E outcome \in Outcomes : GetDone("p1", outcome)
  \/ \E outcome \in Outcomes : SetDone("p1", outcome)
  \/ \E outcome \in Outcomes : InvDone("p1", outcome)

SpecConn == Init /\ [][NextConn]_vars

(***************************************************************************)
(* Dashboard controller: the statistics of one member's DailyResults, as   *)
(* getChallengeLeaderboard (lines 207-210, 218-220) and                     *)
(* getChallengeProgress (lines 139-142, 152-155) compute them.             *)
(***************************************************************************)
MaxResults == 3
LongHistory == 160
ProgressLimit == 100

Dates == 1..2
DailyResult(date, completed) == [date |-> date, completed |-> completed]

\* results.filter((r) => r.completed).length
Completed(results) == Cardinality({i \in 1..Len(results) : results[i].completed})

\* totalDays > 0 ? (completedDays / totalDays) * 100 : 0
completionRate(completedDays, totalDays) ==
  IF totalDays > 0 THEN Times(Divide(completedDays, totalDays), Percent) ELSE Zero

\* The rates of the short histories, computed once.
ShortRates ==
  [t \in 0..MaxResults |-> [c \in 0..t |-> toFixed(completionRate(c, t))]]

\* completionRate.toFixed(2)
rateText(completedDays, totalDays) ==
  IF totalDays \in DOMAIN ShortRates THEN ShortRates[totalDays][completedDays]
  ELSE toFixed(completionRate(completedDays, totalDays))

memberStatistics(results) ==
  LET totalDays == Len(results)
      completedDays == Completed(results)
  IN  [by |-> "leaderboard", totalDays |-> totalDays, completedDays |-> completedDays,
       failedDays |-> 0,
       completionRate |-> rateText(completedDays, totalDays)]

progressStatistics(results) ==
  LET totalDays == Len(results)
      completedDays == Completed(results)
      failedDays == totalDays - completedDays
  IN  [by |-> "progress", totalDays |-> totalDays, completedDays |-> completedDays,
       failedDays |-> failedDays,
       completionRate |-> rateText(completedDays, totalDays)]

\* The histories the statistics are computed for: every short one, with
\* dates that may repeat, and long ones of distinct dates of which the first
\* n are completed.
ShortHistories ==
  UNION {[1..n -> [date : Dates, completed : BOOLEAN]] : n \in 0..MaxResults}
LongHistories ==
  {[i \in 1..LongHistory |-> DailyResult(i, i <= n)] : n \in 0..LongHistory}

InitStats ==
  /\ InitCache
  /\ redisClient = "null"
  /\ \A k \in Keys : ~redisStore[k].present
  /\ dailyResults \in ShortHistories \cup LongHistories
  /\ stats = NoStats
  /\ InitBoard0

StatsFrame ==
  UNCHANGED <<redisClient, isConnected, status, memoryCache, redisStore, pending,
              call, now, calls, ret, lastWrite, chain, issuedWhileDown, origin,
              connVars, boardVars, dailyResults>>

\* getChallengeLeaderboard, lines 207-220, for one member.
LeaderboardStatistics ==
  /\ stats = NoStats
  /\ stats' = memberStatistics(dailyResults)
  /\ StatsFrame

\* getChallengeProgress, lines 139-155; dailyResults is what
\* getMemberDailyResults(membership.id, 100) returned.
ProgressStatistics ==
  /\ stats = NoStats
  /\ Len(dailyResults) <= ProgressLimit
  /\ stats' = progressStatistics(dailyResults)
  /\ StatsFrame

NextStats ==
  \/ LeaderboardStatistics
  \/ ProgressStatistics

SpecStats == InitStats /\ [][NextStats]_vars

(***************************************************************************)
(* Dashboard controller: getChallengeLeaderboard (lines 167-232) with the  *)
(* persistence layer behind prisma and a collaborator that changes         *)
(* ranking-relevant data and then calls invalidateLeaderboardCache.  The   *)
(* request is followed from await to await: the code between two awaits   *)
(* runs in one step, with the cache handler it calls.                      *)
(***************************************************************************)
MaxRequests == 2
MaxChanges == 1
DEFAULT_TTL == 60

Challenge == "c1"
MaxCount == Len(Digits) - 1

Max(a, b) == IF a > b THEN a ELSE b

\* The persistence layer at start-up.
Databases ==
  { NoRows,
    [u \in Usernames |->
       IF u = "alice" THEN Row(TRUE, 1, 2, 0, <<DailyResult(1, TRUE)>>)
       ELSE Row(TRUE, 1, 2, 1, <<>>)] }

\* Events that change ranking-relevant data: a penalty applied (to alice), a
\* streak update and a new DailyResult (of bob).
Changes(d) ==
  {[d EXCEPT ![u].totalPenalties = @ + 1] :
     u \in {v \in {"alice"} : d[v].totalPenalties < MaxCount}}
  \cup
  {[d EXCEPT ![u].currentStreak = @ + 1,
             ![u].longestStreak = Max(@, d[u].currentStreak + 1)] :
     u \in {v \in {"bob"} : d[v].currentStreak < MaxCount}}
  \cup
  {[d EXCEPT ![u].results = Append(@, DailyResult(Len(@) + 1, TRUE))] :
     u \in {v \in {"bob"} : Len(d[v].results) < MaxCount}}

\* A row of prisma.challengeMember.findMany with its included user.
Member(u, row) ==
  [username |-> u, leetcodeUsername |-> u, currentStreak |-> row.currentStreak,
   longestStreak |-> row.longestStreak, totalPenalties |-> row.totalPenalties]

\* Faulty variant: the last key of the order is descending.
Precedes_PenaltiesDescending(a, b) ==
  \/ a.currentStreak > b.currentStreak
  \/ /\ a.currentStreak = b.currentStreak
     /\ \/ a.longestStreak > b.longestStreak
        \/ a.longestStreak = b.longestStreak /\ a.totalPenalties >= b.totalPenalties

\* Lines 193-197: a may come right before b under the orderBy.
Precedes(a, b) ==
  \/ a.currentStreak > b.currentStreak
  \/ /\ a.currentStreak = b.currentStreak
     /\ \/ a.longestStreak > b.longestStreak
        \/ a.longestStreak = b.longestStreak /\ a.totalPenalties <= b.totalPenalties

Arrangements(S) ==
  {q \in [1..Cardinality(S) -> S] : \A i, j \in 1..Cardinality(S) : i # j => q[i] # q[j]}

\* Lines 180-198: the active members in an order the orderBy allows; rows
\* equal on all three keys come in either order.
findManyMembers(d) ==
  LET active == {u \in Usernames : d[u].isActive}
      n == Cardinality(active)
      ordered == {q \in Arrangements(active) :
                    \A i \in 1..(n - 1) : Precedes(d[q[i]], d[q[i + 1]])}
  IN  {[i \in 1..n |-> Member(q[i], d[q[i]])] : q \in ordered}

\* Lines 203-205.
findManyResults(d, member) == d[member.username].results

\* Lines 207-221.
leaderboardEntry(member, results) ==
  LET st == memberStatistics(results) IN
  [username |-> member.username, leetcodeUsername |-> member.leetcodeUsername,
   currentStreak |-> member.currentStreak, longestStreak |-> member.longestStreak,
   totalPenalties |-> member.totalPenalties, completedDays |-> st.completedDays,
   totalDays |-> st.totalDays, completionRate |-> st.completionRate]

NotRead == [read |-> FALSE, rows |-> <<>>]
Read(rows) == [read |-> TRUE, rows |-> rows]

\* Lines 201-223: Promise.all gives the entries in the order of members,
\* whatever the order in which the queries were answered.
PromiseAll(members, results) ==
  [i \in 1..Len(members) |-> leaderboardEntry(members[i], results[i].rows)]

\* Faulty variant: an empty leaderboard in the cache is taken for a miss.
CacheHit_NonEmpty(cachedData) == ~cachedData.isNull /\ cachedData.v # <<>>

\* Line 172: if (cachedData).
CacheHit(cachedData) == TruthyArray(cachedData)

Respond(code, data, rq) ==
  [status |-> code, data |-> data, lookup |-> rq.lookup, members |-> rq.members,
   results |-> rq.results, queries |-> rq.queries, stores |-> rq.stores]

\* The history of a leaderboard a request stores: the version of db it read
\* first, and whether the invalidation that follows a later change had
\* started when setLeaderboardCache was called.
Mark(rq, leaderboard) ==
  [version |-> rq.readAt, late |-> collab.started > rq.readAt, data |-> leaderboard]

Sent(proc, r) == Append(pending, [proc |-> proc, cmd |-> r.cmd[1]])
Answer(proc, outcome) ==
  /\ pending # <<>>
  /\ Head(pending).proc = proc
  /\ outcome = "ok" => status = "connected"

BoardFrame ==
  UNCHANGED <<redisClient, isConnected, status, call, now, calls, ret, lastWrite,
              chain, issuedWhileDown, origin, connVars, statsVars>>

\* Lines 172-180, from the return of getLeaderboardCache.
AfterLookup(rq, cachedData) ==
  IF CacheHit(cachedData)
  THEN /\ response' = Respond("200", cachedData, [rq EXCEPT !.lookup = cachedData])
       /\ request' = NoRequest
  ELSE /\ request' = [rq EXCEPT !.pc = "members", !.lookup = cachedData,
                                !.queries = @ + 1]
       /\ UNCHANGED response

\* Lines 167-171, and on when the cache answers without a command.
RequestStart ==
  /\ request.pc = "idle"
  /\ requests < MaxRequests
  /\ requests' = requests + 1
  /\ LET r == getLeaderboardCacheStart(memoryCache, isRedisReady, Challenge, now) IN
       /\ memoryCache' = r.cache
       /\ IF r.returned
          THEN AfterLookup(NoRequest, r.value) /\ UNCHANGED pending
          ELSE /\ pending' = Sent("request", r)
               /\ request' = [NoRequest EXCEPT !.pc = "lookup"]
               /\ UNCHANGED response
  /\ UNCHANGED <<redisStore, db, dbVersion, collab, stored>>
  /\ BoardFrame

\* Line 171: the command of getLeaderboardCache is answered.
LookupDone(outcome) ==
  /\ request.pc = "lookup"
  /\ Answer("request", outcome)
  /\ LET s == Serve(Head(pending).cmd, outcome, redisStore, now)
         r == getLeaderboardCacheDone(memoryCache, buildKey(Challenge), s.reply, now)
     IN  /\ redisStore' = s.store
         /\ memoryCache' = r.cache
         /\ AfterLookup(request, r.value)
  /\ pending' = Tail(pending)
  /\ UNCHANGED <<requests, db, dbVersion, collab, stored>>
  /\ BoardFrame

\* Lines 225-231, from the call of setLeaderboardCache.
StoreStart(rq, leaderboard) ==
  LET r == setLeaderboardCacheStart(memoryCache, isRedisReady, Challenge,
                                    leaderboard, DEFAULT_TTL, now)
      storing == [rq EXCEPT !.pc = "store", !.leaderboard = leaderboard,
                            !.stores = @ + 1]
  IN  /\ memoryCache' = r.cache
      /\ stored' = [stored EXCEPT !["memory"] = Mark(rq, leaderboard)]
      /\ IF r.returned
         THEN /\ response' = Respond("200", Val(leaderboard), storing)
              /\ request' = NoRequest
              /\ UNCHANGED pending
         ELSE /\ pending' = Sent("request", r)
              /\ request' = storing
              /\ UNCHANGED response

\* Lines 180-201: the members query is answered; the results queries are
\* sent, or with no member Promise.all resolves at once.
MembersDone(rows) ==
  /\ request.pc = "members"
  /\ LET rq == [request EXCEPT !.members = rows, !.readAt = dbVersion,
                               !.results = [i \in 1..Len(rows) |-> NotRead],
                               !.queries = @ + Len(rows)]
     IN  IF rows = <<>>
         THEN StoreStart(rq, PromiseAll(rows, <<>>))
         ELSE /\ request' = [rq EXCEPT !.pc = "results"]
              /\ UNCHANGED <<memoryCache, pending, response, stored>>
  /\ UNCHANGED <<redisStore, requests, db, dbVersion, collab>>
  /\ BoardFrame

\* A persistence query is rejected: asyncHandler passes the error on.
QueryFails ==
  /\ request.pc \in {"members", "results"}
  /\ response' = Respond("error", null, request)
  /\ request' = NoRequest
  /\ UNCHANGED <<memoryCache, redisStore, pending, requests, db, dbVersion, collab,
                 stored>>
  /\ BoardFrame

\* Lines 203-223: the results query of the i-th member is answered; with
\* the last of them Promise.all resolves.
ResultsDone(i) ==
  /\ request.pc = "results"
  /\ i \in 1..Len(request.members)
  /\ ~request.results[i].read
  /\ LET rq == [request EXCEPT
                  !.results[i] = Read(findManyResults(db, request.members[i]))]
     IN  IF \A j \in 1..Len(rq.members) : rq.results[j].read
         THEN StoreStart(rq, PromiseAll(rq.members, rq.results))
         ELSE /\ request' = rq
              /\ UNCHANGED <<memoryCache, pending, response, stored>>
  /\ UNCHANGED <<redisStore, requests, db, dbVersion, collab>>
  /\ BoardFrame

\* Lines 226-231: the command of setLeaderboardCache is answered.
StoreDone(outcome) ==
  /\ request.pc = "store"
  /\ Answer("request", outcome)
  /\ LET s == Serve(Head(pending).cmd, outcome, redisStore, now)
         r == setLeaderboardCacheDone(memoryCache, s.reply)
     IN  /\ redisStore' = s.store
         /\ memoryCache' = r.cache
  /\ pending' = Tail(pending)
  /\ stored' = IF outcome = "ok"
               THEN [stored EXCEPT !["redis"] = stored["memory"]]
               ELSE stored
  /\ response' = Respond("200", Val(request.leaderboard), request)
  /\ request' = NoRequest
  /\ UNCHANGED <<requests, db, dbVersion, collab>>
  /\ BoardFrame

\* The collaborator commits a change.
DataChange ==
  /\ collab.pc = "idle"
  /\ dbVersion < MaxChanges
  /\ db' \in Changes(db)
  /\ dbVersion' = dbVersion + 1
  /\ collab' = [collab EXCEPT !.pc = "changed"]
  /\ UNCHANGED <<memoryCache, redisStore, pending, request, requests, response,
                 stored>>
  /\ BoardFrame

\* ... and calls invalidateLeaderboardCache (cache.service.js lines 123-132).
InvalidateStart ==
  /\ collab.pc = "changed"
  /\ LET r == invalidateLeaderboardCacheStart(memoryCache, isRedisReady, Challenge) IN
       /\ memoryCache' = r.cache
       /\ IF r.returned
          THEN /\ collab' = [collab EXCEPT !.pc = "idle", !.started = dbVersion,
                                           !.done = dbVersion]
               /\ UNCHANGED pending
          ELSE /\ collab' = [collab EXCEPT !.pc = "invalidating", !.started = dbVersion]
               /\ pending' = Sent("collab", r)
  /\ UNCHANGED <<redisStore, db, dbVersion, request, requests, response, stored>>
  /\ BoardFrame

\* Lines 132-137: the delete is answered.
InvalidateDone(outcome) ==
  /\ collab.pc = "invalidating"
  /\ Answer("collab", outcome)
  /\ LET s == Serve(Head(pending).cmd, outcome, redisStore, now)
         r == invalidateLeaderboardCacheDone(memoryCache, s.reply)
     IN  /\ redisStore' = s.store
         /\ memoryCache' = r.cache
  /\ pending' = Tail(pending)
  /\ collab' = [collab EXCEPT !.pc = "idle", !.done = collab.started,
                              !.deleted = IF outcome = "ok" THEN collab.started ELSE @]
  /\ UNCHANGED <<db, dbVersion, request, requests, response, stored>>
  /\ BoardFrame

InitBoard ==
  /\ InitCache
  /\ redisClient = "client"
  /\ InitStats0
  /\ db \in Databases
  /\ dbVersion = 0
  /\ request = NoRequest
  /\ requests = 0
  /\ response = NoResponse
  /\ collab = NoCollab
  /\ stored = [tier \in Tiers |-> NotStored]

NextBoard ==
  \/ RequestStart
  \/ \E outcome \in Outcomes : LookupDone(outcome)
  \/ \E rows \in findManyMembers(db) : MembersDone(rows)
  \/ QueryFails
  \/ \E i \in 1..Cardinality(Usernames) : ResultsDone(i)
  \/ \E outcome \in Outcomes : StoreDone(outcome)
  \/ DataChange
  \/ InvalidateStart
  \/ \E outcome \in Outcomes : InvalidateDone(outcome)
  \/ OnConnect
  \/ OnError
  \/ OnClose

SpecBoard == InitBoard /\ [][NextBoard]_vars

(***************************************************************************)
(* Vocabulary of the claims.                                               *)
(***************************************************************************)
LeaderboardEntries == [username : Usernames, currentStreak : Streaks]

EntrySequenceOrAbsent(x) ==
  x.isNull \/ \A i \in DOMAIN x.v : x.v[i] \in LeaderboardEntries

\* When the record of a completed write runs out.
Expires(lw) == lw.at + lw.ttl * MsPerSecond

\* The last step returned from getLeaderboardCache(id), issued after the last
\* setLeaderboardCache(id, E, ttl) had completed, with no setLeaderboardCache
\* or invalidateLeaderboardCache for id started since.
GetAfterSet ==
  /\ ret.op = "get"
  /\ ret.lw.kind = "set"
  /\ ret.lw.done
  /\ ret.sawDone

\* The durable reply of the get that just returned carried a payload whose
\* decode fails.
MalformedReply ==
  /\ ret.op = "get"
  /\ ret.reply = "ok"
  /\ TruthyString(ret.redisData)
  /\ JSONparse(ret.redisData.v).threw

\* C1: getLeaderboardCache, setLeaderboardCache and invalidateLeaderboardCache
\* never raise to their caller, whatever the client's state (absent, not
\* ready, ready) and the durable outcome (success, error, malformed payload);
\* getLeaderboardCache returns an entry sequence or null.
C1_NeverRaises ==
  /\ ~ret.raised
  /\ ret.op = "get" => EntrySequenceOrAbsent(ret.value)

C1_Witness ==
  /\ MalformedReply
  /\ ~ret.raised
  /\ \E p \in Procs : call[p].op = "set"

C3_Degradation ==
  /\ ~issuedWhileDown
  /\ ret.reply = "notready" => ~ret.raised
  /\ (ret.op = "get" /\ ret.reply = "notready") =>
       ret.memRead /\ ret.value = ret.memHeld
  /\ (ret.op = "get" /\ ret.reply = "notready" /\ ret.lw.mode = "down") =>
       /\ (ret.lw.kind = "set" /\ ret.at <= Expires(ret.lw)) =>
            ret.value = Val(ret.lw.data)
       /\ ret.lw.kind = "inv" => ret.value = null

C3_Witness ==
  /\ ret.op = "get"
  /\ ret.reply = "notready"
  /\ redisClient = "client"
  /\ ret.lw.mode = "down"
  /\ ret.lw.kind = "set"
  /\ ret.lw.data # <<>>
  /\ ret.at = Expires(ret.lw)
  /\ ret.value = Val(ret.lw.data)
  /\ redisStore[buildKey(ret.id)].present

\* C4: when the client is ready and its get rejects (network error, timeout),
\* getLeaderboardCache does not raise and returns what the Fallback Store
\* holds for the id: its unexpired value, otherwise null.
C4_ReadErrorFallsBack ==
  (ret.op = "get" /\ ret.reply = "error") =>
    /\ ~ret.raised
    /\ ret.memRead
    /\ ret.value = ret.memHeld

C4_Witness ==
  /\ ret.op = "get"
  /\ ret.reply = "error"
  /\ ~ret.memHeld.isNull
  /\ ret.memHeld.v # <<>>
  /\ ret.value = ret.memHeld

\* C5, as claimed: when the durable get succeeds with no value the call
\* returns null and does not read the Fallback Store; when it succeeds with a
\* value, the deserialized value is returned and the Fallback Store is not
\* read.
C5_Original ==
  (ret.op = "get" /\ ret.reply = "ok") =>
    /\ ~ret.memRead
    /\ ret.redisData.isNull => ret.value = null
    /\ ~ret.redisData.isNull =>
         /\ ~JSONparse(ret.redisData.v).threw
         /\ ret.value = JSONparse(ret.redisData.v).value

\* C5, amended: when the durable get succeeds with no value (or the empty
\* string) the call returns null and does not read the Fallback Store; when
\* it succeeds with a value that decodes, the decoded value is returned and
\* the Fallback Store is not read; a value whose decode fails sends the call
\* to the Fallback Store.
C5_Amended ==
  (ret.op = "get" /\ ret.reply = "ok") =>
    /\ ~TruthyString(ret.redisData) => (ret.value = null /\ ~ret.memRead)
    /\ (TruthyString(ret.redisData) /\ ~JSONparse(ret.redisData.v).threw) =>
         (ret.value = JSONparse(ret.redisData.v).value /\ ~ret.memRead)
    /\ MalformedReply => ret.memRead

C5_Witness ==
  /\ ret.op = "get"
  /\ ret.reply = "ok"
  /\ ret.redisData.isNull
  /\ ~ret.memHeld.isNull
  /\ ret.value = null
  /\ ~ret.memRead

\* What the Fallback Store holds for a set(id, data, ttl) started at time t0:
\* the record the set wrote, unless a read has evicted it after its expiry.
HoldsSince(id, data, ttl, t0) ==
  LET e == memoryCache[buildKey(id)]
      expiresAt == t0 + ttl * MsPerSecond
  IN  \/ e = MemEntry(Val(data), expiresAt)
      \/ now > expiresAt /\ e = NoEntry

\* C6: within one setLeaderboardCache(id, E, ttl) the Fallback Store write
\* comes first and unconditionally: whenever the durable write has been
\* attempted the Fallback Store already holds E for id and the durable write
\* carries the same TTL, and the Fallback Store still holds E when the
\* durable write fails or the call has not gone past its first step.
C6_FallbackFirst ==
  /\ \A p \in Procs : call[p].op = "set" =>
       /\ \E i \in 1..Len(pending) :
            /\ pending[i].proc = p
            /\ pending[i].cmd.op = "set"
            /\ pending[i].cmd.key = buildKey(call[p].id)
            /\ pending[i].cmd.ttl = call[p].ttl
            /\ JSONparse(pending[i].cmd.payload) =
                 [threw |-> FALSE, value |-> Val(call[p].data)]
       /\ call[p].latest =>
            HoldsSince(call[p].id, call[p].data, call[p].ttl, call[p].issuedAt)
  /\ (ret.op = "set" /\ ret.sawDone) =>
       HoldsSince(ret.id, ret.lw.data, ret.lw.ttl, ret.issuedAt)

C6_Witness ==
  /\ ret.op = "set"
  /\ ret.reply = "error"
  /\ ret.sawDone
  /\ ret.lw.data # <<>>
  /\ memoryCache[buildKey(ret.id)].present
  /\ \E p \in Procs : call[p].op = "set" /\ call[p].latest /\ call[p].id # ret.id

\* C7: invalidateLeaderboardCache is idempotent: after two calls in a row for
\* an id the Fallback Store and the durable cache are in a state one call
\* leaves them in (the Fallback Store without the key; the durable cache
\* without it, or as it was when the delete could not be made), and the
\* second call does not raise.
C7_Idempotent ==
  \A id \in ChallengeIds : chain[id].phase = "twice" =>
    /\ memoryCache[buildKey(id)] = NoEntry
    /\ redisStore[buildKey(id)] \in {chain[id].red0, NoRecord}
    /\ (ret.op = "inv" /\ ret.id = id) => ~ret.raised

C7_Witness ==
  \E id \in ChallengeIds :
    /\ chain[id].phase = "twice"
    /\ chain[id].mem0.present
    /\ chain[id].red0.present
    /\ redisStore[buildKey(id)] = NoRecord
    /\ ret.op = "inv" /\ ret.id = id /\ ret.reply = "ok"

\* What getLeaderboardCache(id) would return if called now: when the client
\* is ready, on the durable cache's reply and on its failure; otherwise from
\* the Fallback Store.
GetResult(id) ==
  IF isRedisReady
  THEN <<getLeaderboardCacheDone(memoryCache, buildKey(id),
                                 Resolved(RedisGet(redisStore, buildKey(id), now)), now).value,
         getLeaderboardCacheDone(memoryCache, buildKey(id), Rejected, now).value>>
  ELSE <<getLeaderboardCacheStart(memoryCache, FALSE, id, now).value>>

\* A step of a handler: a call starts, or a reply is taken off the queue.
HandlerStep == calls' # calls \/ pending' # pending

\* The challenge id of the call that takes the step.
ActsOn(id) ==
  IF calls' = calls /\ pending # <<>> /\ pending' = Tail(pending)
  THEN call[Head(pending).proc].id = id
  ELSE \/ ret'.id = id
       \/ \E p \in Procs : call[p] = Idle /\ call'[p].id = id

\* C8: entries never collide across challenges: a step of a get, set or
\* invalidate on challenge A leaves, for every other challenge B, the record
\* of B in the Fallback Store and in the durable cache unchanged, and does
\* not change what getLeaderboardCache(B) returns.
C8_NoCollision ==
  [][\A B \in ChallengeIds :
       (HandlerStep /\ ~ActsOn(B)) =>
         /\ memoryCache'[buildKey(B)] = memoryCache[buildKey(B)]
         /\ redisStore'[buildKey(B)] = redisStore[buildKey(B)]
         /\ GetResult(B)' = GetResult(B)]_vars

C8_Witness ==
  /\ ret.op = "inv"
  /\ ret.id = "c1"
  /\ ret.reply = "ok"
  /\ memoryCache[buildKey("c1")] = NoEntry
  /\ redisStore[buildKey("c1")] = NoRecord
  /\ memoryCache[buildKey("c2")].present
  /\ memoryCache[buildKey("c2")].data.v # <<>>
  /\ redisStore[buildKey("c2")].present
  /\ redisStore[buildKey("c2")].payload = JSONstringify(memoryCache[buildKey("c2")].data.v)

\* C9: with the client ready and its set and get succeeding throughout,
\* setLeaderboardCache(id, E) followed at once (no time passing up to the
\* answer) by getLeaderboardCache(id) returns E, decoded from the durable
\* cache's reply and not read from the Fallback Store.
C9_RoundTrip ==
  (/\ GetAfterSet
   /\ ret.lw.mode = "healthy"
   /\ ret.reply = "ok"
   /\ ret.at = ret.lw.at) =>
    /\ ret.value = Val(ret.lw.data)
    /\ ~ret.memRead
    /\ ret.redisData = Val(JSONstringify(ret.lw.data))

C9_Witness ==
  /\ GetAfterSet
  /\ ret.lw.mode = "healthy"
  /\ ret.reply = "ok"
  /\ ret.at = ret.lw.at
  /\ ret.lw.data # <<>>
  /\ ret.value = Val(ret.lw.data)
  /\ ret.memHeld = ret.value

\* C10, as claimed: a durable payload whose decode fails is a cache miss:
\* getLeaderboardCache does not raise and returns null.
C10_Original ==
  MalformedReply => (~ret.raised /\ ret.value = null)

\* C10, amended: a durable payload whose decode fails does not make
\* getLeaderboardCache raise; the call returns what the Fallback Store holds
\* for the id, its unexpired value or null.
C10_Amended ==
  MalformedReply => (~ret.raised /\ ret.memRead /\ ret.value = ret.memHeld)

C10_Witness ==
  /\ MalformedReply
  /\ ret.memRead
  /\ ~ret.memHeld.isNull
  /\ ret.memHeld.v # <<>>
  /\ ret.value = ret.memHeld

\* The client has given up reconnecting.
GaveUp == status = "end"

\* C11, as claimed: after the n-th failed connection attempt the client waits
\* min(n * 500 ms, 2000 ms) before the next attempt, and once 3 attempts have
\* failed it has given up: no further attempt is made.
C11_Original ==
  /\ (status = "wait" /\ failed > 0) =>
       retryDelay = Min(failed * RetryStepMs, RetryCapMs)
  /\ failed >= MaxRetryTimes => GaveUp

\* The state part of C11 as amended.
C11_Schedule ==
  /\ status = "wait" =>
       /\ retryAttempts \in 1..MaxRetryTimes
       /\ retryDelay = Min(retryAttempts * RetryStepMs, RetryCapMs)
       /\ waited <= retryDelay
  /\ (status = "connecting" /\ retryAttempts > 0) => waited = retryDelay
  /\ GaveUp <=> retryAttempts = MaxRetryTimes + 1
  /\ GaveUp => failed \in {MaxRetryTimes, MaxRetryTimes + 1}
  /\ failed \in {retryAttempts - 1, retryAttempts}

\* C11, amended: before its n-th reconnection in a row (n <= 3) the client
\* waits min(n * 500 ms, 2000 ms), a reconnection starts only when that delay
\* has run out, and the client gives up exactly when three reconnections in a
\* row have failed (at start-up: the first attempt and three reconnections);
\* after that no connection attempt is made.
C11_Amended ==
  /\ []C11_Schedule
  /\ [][GaveUp => (GaveUp' /\ ~isConnected')]_vars

C11_Witness ==
  /\ GaveUp
  /\ failed = MaxRetryTimes + 1
  /\ retryDelay = MaxRetryTimes * RetryStepMs
  /\ event = "close"

\* C12: isRedisReady() is true only while a connection to the durable cache
\* exists: it is false before the first connect, after an error or close
\* event (until the next connect), when the client could not be created, and
\* once the client has given up reconnecting.
C12_ReadyOnlyWhileConnected ==
  /\ isRedisReady => (status = "connected" /\ event = "connect")
  /\ redisClient = "null" => ~isRedisReady
  /\ GaveUp => ~isRedisReady

C12_Witness ==
  /\ status = "connected"
  /\ event = "error"
  /\ ~isRedisReady
  /\ calls > 0

\* The last step returned a value from getLeaderboardCache.
GetReturnedValue == ret.op = "get" /\ ~ret.value.isNull

\* The set call behind the record the last get was served from.
ServedOrigin ==
  origin[IF ret.memRead THEN "memory" ELSE "redis"][buildKey(ret.id)]

Starts(op, id) ==
  /\ calls' = calls + 1
  /\ \/ ret'.op = op /\ ret'.id = id
     \/ \E p \in Procs : call[p] = Idle /\ call'[p].op = op /\ call'[p].id = id

\* This step runs memoryGet(key).
ReadsMemory(key) ==
  \E id \in ChallengeIds :
    key = buildKey(id) /\ ret'.op = "get" /\ ret'.id = id /\ ret'.memRead

\* C17: memoryGet(key) returns null for an unknown key and for an entry whose
\* expiresAt the clock has passed, removing that entry; up to expiresAt it
\* returns the stored value and changes nothing; memorySet replaces the entry
\* of its key with the value and expiresAt = now + ttl * 1000; an entry goes
\* away only through an expired read or a delete of its key.
C17_LazyExpiry ==
  [][\A id \in ChallengeIds :
       LET key == buildKey(id)
           entry == memoryCache[key]
       IN  /\ ReadsMemory(key) =>
                IF entry.present /\ now <= entry.expiresAt
                THEN ret'.value = entry.data /\ memoryCache' = memoryCache
                ELSE /\ ret'.value = null
                     /\ memoryCache' = [memoryCache EXCEPT ![key] = NoEntry]
           /\ Starts("set", id) =>
                memoryCache' =
                  [memoryCache EXCEPT ![key] =
                     MemEntry(Val(lastWrite'[id].data),
                              now + lastWrite'[id].ttl * MsPerSecond)]
           /\ (entry.present /\ ~memoryCache'[key].present) =>
                \/ ReadsMemory(key) /\ now > entry.expiresAt
                \/ Starts("inv", id)]_vars

C17_Witness ==
  /\ ret.op = "get"
  /\ ret.memRead
  /\ ret.value = null
  /\ memoryCache[buildKey(ret.id)] = NoEntry
  /\ origin["memory"][buildKey(ret.id)].known
  /\ origin["memory"][buildKey(ret.id)].data # <<>>
  /\ ret.at > origin["memory"][buildKey(ret.id)].startedAt
                + origin["memory"][buildKey(ret.id)].ttl * MsPerSecond

\* The last step returned from getLeaderboardCache(id), issued after the last
\* invalidateLeaderboardCache(id) had completed, with no setLeaderboardCache
\* or invalidateLeaderboardCache for id started since.
GetAfterInvalidate ==
  /\ ret.op = "get"
  /\ ret.lw.kind = "inv"
  /\ ret.lw.done
  /\ ret.sawDone

DigitValue(ch) == CHOOSE d \in 0..9 : DecimalDigits[d + 1] = ch

\* The number a decimal text with FractionDigits decimals stands for, in
\* units of the last decimal.
FixedValue(text) ==
  LET digits == SelectSeq(text, LAMBDA ch : ch # ".")
      value[i \in 0..Len(digits)] ==
        IF i = 0 THEN 0 ELSE 10 * value[i - 1] + DigitValue(digits[i])
  IN  value[Len(digits)]

Scale == Percent * Pow(10, FractionDigits)

StatsComputed == stats.by # "none"

\* What holds of the statistics whatever the rounding.
StatsInRange ==
  /\ 0 <= stats.completedDays
  /\ stats.completedDays <= stats.totalDays
  /\ 0 <= FixedValue(stats.completionRate)
  /\ FixedValue(stats.completionRate) <= Scale
  /\ stats.totalDays = 0 =>
       stats.completedDays = 0 /\ FixedValue(stats.completionRate) = 0
  /\ stats.by = "progress" => stats.failedDays = stats.totalDays - stats.completedDays

\* 100 * completedDays / totalDays rounded to 2 decimals, half up.
RoundedRate(completedDays, totalDays) ==
  (2 * Scale * completedDays + totalDays) \div (2 * totalDays)

\* C15 as stated: the statistics are in range, the rate of an empty history
\* is 0, and the rate of any other history is 100 * completedDays / totalDays
\* rounded to 2 decimals.
C15_Original ==
  StatsComputed =>
    /\ StatsInRange
    /\ stats.totalDays > 0 =>
         stats.completionRate = FixedText(RoundedRate(stats.completedDays, stats.totalDays))

\* C15, amended: the statistics are in range, the rate of an empty history
\* is 0, and the rate of any other history is a hundredth nearest to
\* 100 * completedDays / totalDays: no further from it than half a
\* hundredth, so that a value halfway between two hundredths may go either way.
C15_Amended ==
  StatsComputed =>
    /\ StatsInRange
    /\ stats.totalDays > 0 =>
         LET exact == Scale * stats.completedDays
             given == FixedValue(stats.completionRate) * stats.totalDays
         IN  /\ 2 * (given - exact) <= stats.totalDays
             /\ 2 * (exact - given) <= stats.totalDays

\* A rate has been computed for a history whose exact rate lies halfway
\* between two hundredths, and it is the lower of the two.
C15_Witness ==
  /\ StatsComputed
  /\ stats.totalDays > 0
  /\ 2 * ((Scale * stats.completedDays) % stats.totalDays) = stats.totalDays
  /\ FixedValue(stats.completionRate) * stats.totalDays < Scale * stats.completedDays

\* The dates of a history, and the dates it has a completed record for.
DistinctDates(results) == {results[i].date : i \in 1..Len(results)}
CompletedDates(results) ==
  {results[i].date : i \in {j \in 1..Len(results) : results[j].completed}}

\* C16: a date that occurs in two of the DailyResults received for a member
\* is counted once in totalDays and once in completedDays.
C16_NoDoubleCount ==
  StatsComputed =>
    /\ stats.totalDays = Cardinality(DistinctDates(dailyResults))
    /\ stats.completedDays = Cardinality(CompletedDates(dailyResults))

(***************************************************************************)
(* C14, C18, C20: getChallengeLeaderboard.                                 *)
(***************************************************************************)
Present(x) == ~x.isNull
Sent200 == response.status = "200"
FromCache == Sent200 /\ Present(response.lookup)
Computed == Sent200 /\ ~Present(response.lookup)

\* The request takes a step that ends it with a response.
Responds == request' = NoRequest /\ (request # NoRequest \/ requests' # requests)

\* a may rank right before b.
RanksBefore(a, b) ==
  \/ a.currentStreak > b.currentStreak
  \/ a.currentStreak = b.currentStreak /\ a.longestStreak > b.longestStreak
  \/ /\ a.currentStreak = b.currentStreak
     /\ a.longestStreak = b.longestStreak
     /\ a.totalPenalties <= b.totalPenalties

Ranked(board) == \A i \in 1..(Len(board) - 1) : RanksBefore(board[i], board[i + 1])

\* The leaderboard is the sequence of members, entry by entry.
FollowsMembers(board, members) ==
  /\ Len(board) = Len(members)
  /\ \A i \in 1..Len(board) :
       /\ board[i].username = members[i].username
       /\ board[i].currentStreak = members[i].currentStreak
       /\ board[i].longestStreak = members[i].longestStreak
       /\ board[i].totalPenalties = members[i].totalPenalties

\* C14: a leaderboard sent by getChallengeLeaderboard, computed or served
\* from the cache, is ranked: each entry has a greater currentStreak than the
\* next, or the same and a greater longestStreak, or both the same and no
\* more totalPenalties.  A computed leaderboard keeps the order of the
\* sorted members, and one served from the cache is, entry by entry, a
\* leaderboard a request stored.
C14_RankingOrder ==
  /\ [](Sent200 => Ranked(response.data.v))
  /\ [](Computed => FollowsMembers(response.data.v, response.members))
  /\ [][Responds /\ Present(response'.lookup) =>
          \E tier \in Tiers : /\ stored[tier].version >= 0
                              /\ response'.data.v = stored[tier].data]_vars

\* A leaderboard of two members equal on both streaks, ranked by their
\* penalties, has been served from the cache.
C14_Witness ==
  /\ FromCache
  /\ Len(response.data.v) = 2
  /\ response.data.v[1].currentStreak = response.data.v[2].currentStreak
  /\ response.data.v[1].longestStreak = response.data.v[2].longestStreak
  /\ response.data.v[1].totalPenalties < response.data.v[2].totalPenalties

\* The statistics of each entry are those of the rows read for its member.
FollowsResults(board, results) ==
  \A i \in 1..Len(board) :
    /\ results[i].read
    /\ board[i].totalDays = Len(results[i].rows)
    /\ board[i].completedDays =
         Cardinality({j \in 1..Len(results[i].rows) : results[i].rows[j].completed})

NoRequestCommand(queue) == \A i \in 1..Len(queue) : queue[i].proc # "request"

\* C18, the responses: a value returned by getLeaderboardCache is sent as it
\* is, with no persistence query and no call of setLeaderboardCache; on
\* absent, the leaderboard sent is computed from the rows read, after one
\* query for the members and one for each member, and setLeaderboardCache
\* has been called once; after a failed query, setLeaderboardCache has not
\* been called.
C18_Responses ==
  /\ (request # NoRequest => ~Present(request.lookup))
  /\ (response.status # "none" /\ Present(response.lookup) =>
        /\ Sent200
        /\ response.data = response.lookup
        /\ response.queries = 0
        /\ response.stores = 0)
  /\ (Computed =>
        /\ FollowsMembers(response.data.v, response.members)
        /\ FollowsResults(response.data.v, response.results)
        /\ response.queries = 1 + Len(response.members)
        /\ response.stores = 1)
  /\ (response.status = "error" => response.queries > 0 /\ response.stores = 0)

\* C18, the steps: the step that sends a cached value writes to no tier and
\* sends no command; the step that sends a computed leaderboard leaves no
\* command of setLeaderboardCache unanswered; the step in which a query
\* fails leaves both tiers and the commands in flight as they are.
C18_Steps ==
  /\ Responds /\ Present(response'.lookup) =>
       /\ memoryCache' = memoryCache
       /\ redisStore' = redisStore
       /\ NoRequestCommand(pending')
  /\ Responds /\ response'.status = "200" /\ ~Present(response'.lookup) =>
       /\ response'.stores = 1
       /\ NoRequestCommand(pending')
  /\ Responds /\ response'.status = "error" =>
       UNCHANGED <<memoryCache, redisStore, pending>>

TierHolds(tier) ==
  /\ stored[tier].version >= 0
  /\ IF tier = "memory" THEN memoryCache[buildKey(Challenge)].present
     ELSE /\ redisStore[buildKey(Challenge)].present
          /\ redisStore[buildKey(Challenge)].payload = JSONstringify(stored[tier].data)

\* ... and it was computed from data read before the change numbered v.
Stale(tier, v) == TierHolds(tier) /\ stored[tier].version < v

\* C20 as stated: once the invalidation that follows a change has completed,
\* no tier holds a leaderboard computed from data read before the change.
C20_Original == \A tier \in Tiers : ~Stale(tier, collab.done)

\* C20, amended: once the invalidation that follows a change has completed,
\* the Fallback Store holds no leaderboard computed from data read before
\* the change, and once its delete has succeeded neither does the durable
\* cache, other than one whose setLeaderboardCache was called after the
\* invalidation had started.
C20_Amended ==
  /\ Stale("memory", collab.done) => stored["memory"].late
  /\ Stale("redis", collab.deleted) => stored["redis"].late

\* A leaderboard stored in the durable cache before the invalidation
\* started was computed from data read before the change, and the
\* invalidation has deleted it.
C20_Witness ==
  /\ collab.pc = "idle"
  /\ collab.deleted > 0
  /\ stored["redis"].version >= 0
  /\ stored["redis"].version < collab.deleted
  /\ ~stored["redis"].late
  /\ ~redisStore[buildKey(Challenge)].present

====
